---------------------------- MODULE Spec2Model ----------------------------
(***************************************************************************)
(* Jaggery Store API (src/main.py, src/schemas.py): the /seed and          *)
(* /checkout request handlers over the product and order collections.      *)
(*                                                                         *)
(* Money is Python float (IEEE-754 binary64).  A float is modelled by its  *)
(* exact value m * 2^e, with m a 53-bit natural number held as a sequence  *)
(* of limbs, and every float operation rounds to nearest, ties to even, as *)
(* the hardware does.                                                      *)
(***************************************************************************)
EXTENDS Integers, Sequences, FiniteSets, TLC

(***************************************************************************)
(* Natural numbers of arbitrary size: limbs in base 2^15, least            *)
(* significant first, no leading zero limb; zero is the empty sequence.    *)
(***************************************************************************)
LimbBits == 15

Base == 2^LimbBits

RECURSIVE Norm(_)
Norm(a) ==
    IF a = <<>> THEN <<>>
    ELSE IF a[Len(a)] = 0 THEN Norm(SubSeq(a, 1, Len(a) - 1))
    ELSE a

Limb(a, i) == IF i <= Len(a) THEN a[i] ELSE 0

RECURSIVE AddFrom(_, _, _, _)
AddFrom(a, b, i, c) ==
    IF i > Len(a) /\ i > Len(b)
    THEN (IF c = 0 THEN <<>> ELSE <<c>>)
    ELSE LET s == Limb(a, i) + Limb(b, i) + c
         IN  <<s % Base>> \o AddFrom(a, b, i + 1, s \div Base)

BigAdd(a, b) == AddFrom(a, b, 1, 0)

RECURSIVE MulFrom(_, _, _, _)
MulFrom(a, k, i, c) ==
    IF i > Len(a)
    THEN (IF c = 0 THEN <<>> ELSE <<c>>)
    ELSE LET s == a[i] * k + c
         IN  <<s % Base>> \o MulFrom(a, k, i + 1, s \div Base)

\* a * k for 0 <= k < Base
BigMulSmall(a, k) == IF k = 0 THEN <<>> ELSE MulFrom(a, k, 1, 0)

RECURSIVE DivFrom(_, _, _)
DivFrom(a, d, i) ==
    IF i > Len(a) THEN [q |-> <<>>, r |-> 0]
    ELSE LET hi  == DivFrom(a, d, i + 1)
             cur == hi.r * Base + a[i]
         IN  [q |-> <<cur \div d>> \o hi.q, r |-> cur % d]

\* quotient and remainder of a by d, 1 <= d <= Base
BigDivSmall(a, d) ==
    LET qr == DivFrom(a, d, 1) IN [q |-> Norm(qr.q), r |-> qr.r]

RECURSIVE SmallBitLen(_)
SmallBitLen(n) == IF n = 0 THEN 0 ELSE 1 + SmallBitLen(n \div 2)

BitLen(a) ==
    IF a = <<>> THEN 0 ELSE LimbBits * (Len(a) - 1) + SmallBitLen(a[Len(a)])

Zeros(n) == [i \in 1..n |-> 0]

\* a * 2^s
ShiftL(a, s) ==
    IF a = <<>> THEN <<>>
    ELSE Zeros(s \div LimbBits) \o BigMulSmall(a, 2^(s % LimbBits))

\* floor(a / 2^s), and whether any bit was shifted out
ShiftR(a, s) ==
    LET k    == s \div LimbBits
        lost == \E i \in 1..k : Limb(a, i) # 0
        rest == IF k >= Len(a) THEN <<>> ELSE SubSeq(a, k + 1, Len(a))
        qr   == BigDivSmall(rest, 2^(s % LimbBits))
    IN  [v |-> qr.q, sticky |-> lost \/ qr.r # 0]

RECURSIVE LessFrom(_, _, _)
LessFrom(a, b, i) ==
    IF i = 0 THEN FALSE
    ELSE IF a[i] # b[i] THEN a[i] < b[i]
    ELSE LessFrom(a, b, i - 1)

BigLess(a, b) ==
    IF Len(a) # Len(b) THEN Len(a) < Len(b) ELSE LessFrom(a, b, Len(a))

IsOdd(a) == a # <<>> /\ a[1] % 2 = 1

\* floor(n / 2^s) rounded to the nearest integer, ties to even; the number
\* rounded is n / 2^s plus a fraction below 2^-s that is non-zero iff sticky
RoundShift(n, s, sticky) ==
    IF s = 0 THEN n
    ELSE LET sr == ShiftR(n, s - 1)
             q  == BigDivSmall(sr.v, 2).q
             up == IsOdd(sr.v) /\ (sr.sticky \/ sticky \/ IsOdd(q))
         IN  IF up THEN BigAdd(q, <<1>>) ELSE q

(***************************************************************************)
(* binary64: value m * 2^e with 2^52 <= m < 2^53, or zero.                 *)
(***************************************************************************)
MantBits == 53

FZero == [m |-> <<>>, e |-> 0]

\* the float nearest to n * 2^e (plus a fraction below 2^e, non-zero iff
\* sticky); with sticky set the caller passes n of more than MantBits bits
ToFloat(n, e, sticky) ==
    IF n = <<>> THEN FZero
    ELSE LET L == BitLen(n)
         IN  IF L <= MantBits
             THEN [m |-> ShiftL(n, MantBits - L), e |-> e - (MantBits - L)]
             ELSE LET r == RoundShift(n, L - MantBits, sticky)
                  IN  IF BitLen(r) > MantBits
                      THEN [m |-> BigDivSmall(r, 2).q, e |-> e + (L - MantBits) + 1]
                      ELSE [m |-> r, e |-> e + (L - MantBits)]

MinExp(x, y) == IF x.e < y.e THEN x.e ELSE y.e

\* x + y
FAdd(x, y) ==
    IF x.m = <<>> THEN y
    ELSE IF y.m = <<>> THEN x
    ELSE LET e == MinExp(x, y)
         IN  ToFloat(BigAdd(ShiftL(x.m, x.e - e), ShiftL(y.m, y.e - e)), e, FALSE)

\* x * k for an int 0 <= k < Base (the int converts to float exactly)
FMulInt(x, k) == ToFloat(BigMulSmall(x.m, k), x.e, FALSE)

\* x >= y
FGe(x, y) ==
    IF y.m = <<>> THEN TRUE
    ELSE IF x.m = <<>> THEN FALSE
    ELSE LET e == MinExp(x, y)
         IN  ~BigLess(ShiftL(x.m, x.e - e), ShiftL(y.m, y.e - e))

GuardBits == 75

\* the float nearest to n / d, for a natural n and 1 <= d <= 1000: what a
\* decimal literal or a decimal string denotes
FRatio(n, d) ==
    LET qr == BigDivSmall(ShiftL(n, GuardBits), d)
    IN  ToFloat(qr.q, -GuardBits, qr.r # 0)

RECURSIVE BigOfNat(_)
BigOfNat(n) == IF n = 0 THEN <<>> ELSE <<n % Base>> \o BigOfNat(n \div Base)

\* the float a literal with three decimals denotes: Dec(2490) is 2.49
Dec(milli) == FRatio(BigOfNat(milli), 1000)

\* round(x, 2): the exact value of x rounded to two decimals, ties to even,
\* and the float nearest to that decimal
PyRound2(x) ==
    IF x.m = <<>> THEN FZero
    ELSE LET n == BigMulSmall(x.m, 100)
             c == IF x.e >= 0 THEN ShiftL(n, x.e) ELSE RoundShift(n, -x.e, FALSE)
         IN  FRatio(c, 100)

(***************************************************************************)
(* Strings that the code inspects are sequences of one-character strings.  *)
(* bson.ObjectId(s) accepts exactly 24 hexadecimal digits of either case   *)
(* and raises InvalidId on anything else; str(oid) prints lowercase.       *)
(***************************************************************************)
OidHexLen == 24

LowerHex == <<"0", "1", "2", "3", "4", "5", "6", "7", "8", "9",
              "a", "b", "c", "d", "e", "f">>

UpperHex == <<"0", "1", "2", "3", "4", "5", "6", "7", "8", "9",
              "A", "B", "C", "D", "E", "F">>

IsHexChar(c) == \E d \in 1..16 : c = LowerHex[d] \/ c = UpperHex[d]

HexVal(c) == (CHOOSE d \in 1..16 : c = LowerHex[d] \/ c = UpperHex[d]) - 1

\* ObjectId.is_valid(s)
OidValid(s) == Len(s) = OidHexLen /\ \A i \in 1..Len(s) : IsHexChar(s[i])

\* ObjectId(s), for a valid s: the 24 nibbles of the 12-byte id
ParseOid(s) == [i \in 1..OidHexLen |-> HexVal(s[i])]

\* str(oid)
StrOid(o) == [i \in 1..OidHexLen |-> LowerHex[o[i] + 1]]

\* the n-th ObjectId the store hands out, 0 <= n < 256
OidOf(n) == [i \in 1..OidHexLen |->
                IF i = OidHexLen THEN n % 16
                ELSE IF i = OidHexLen - 1 THEN (n \div 16) % 16
                ELSE 0]

(***************************************************************************)
(* Bounds of the model.                                                    *)
(***************************************************************************)
\* requests received in one behaviour, served at once
MaxCalls == 2

\* requests received in one behaviour, served one after another
MaxSeqCalls == 3

\* requests the thread pool serves at once
MaxInFlight == 2

\* administrative price changes in one behaviour
MaxAdmin == 1

\* lines of a cart
MaxCart == 2

\* the valid quantity tried
MaxQty == 3

\* the first ObjectId the store hands out
FirstOid == 10

(***************************************************************************)
(* The two demo products of seed_products.                                 *)
(***************************************************************************)
DemoSkus == {"JAG-500", "JAG-1000"}

P1 == [title |-> "Jaggery Powder 500g",
       description |-> "Pure, chemical-free jaggery powder. Perfect for tea, coffee and cooking.",
       price |-> Dec(2490), category |-> "jaggery", in_stock |-> TRUE,
       image |-> "/jaggery-500.jpg", sku |-> "JAG-500", weight_g |-> 500]

P2 == [title |-> "Jaggery Powder 1kg",
       description |-> "Pure, chemical-free jaggery powder family pack.",
       price |-> Dec(4490), category |-> "jaggery", in_stock |-> TRUE,
       image |-> "/jaggery-1000.jpg", sku |-> "JAG-1000", weight_g |-> 1000]

(***************************************************************************)
(* Request bodies.  FastAPI validates the body against CheckoutRequest     *)
(* before the handler runs and answers 422 when a field is missing.        *)
(***************************************************************************)
RequiredFields == {"name", "email", "phone", "address_line", "city", "pincode",
                   "payment_method", "cart"}

PayMethods == {"card", "cod", "Card"}

BadQuantities == {-1, 0}

KnownIdStr == StrOid(OidOf(FirstOid))

UpperIdStr == [i \in 1..OidHexLen |-> UpperHex[OidOf(FirstOid)[i] + 1]]

UnknownIdStr == StrOid(OidOf(0))

BadIdStr == <<"j", "a", "g">>

CartIds == {KnownIdStr, StrOid(OidOf(FirstOid + 1)), UpperIdStr, UnknownIdStr, BadIdStr}

\* the cart lines tried: every id with a valid quantity, and the invalid
\* quantities with an id the seeded catalog has
GoodItem == [product_id |-> KnownIdStr, quantity |-> MaxQty]

CartItems == {[product_id |-> id, quantity |-> MaxQty] : id \in CartIds}
             \cup {[product_id |-> KnownIdStr, quantity |-> q] : q \in BadQuantities}

\* the carts tried: up to MaxCart good lines, with any one line replaced by
\* any of the lines tried
Carts == {<<>>} \cup
         {[i \in 1..n |-> IF i = k THEN item ELSE GoodItem] :
             n \in 1..MaxCart, k \in 1..MaxCart, item \in CartItems}

Body(pm, cart) ==
    [name |-> "Asha", email |-> "asha@example.com", phone |-> "9000000000",
     address_line |-> "1 Mill Road", city |-> "Pune", pincode |-> "411001",
     payment_method |-> pm, cart |-> cart]

Without(body, f) == [x \in (DOMAIN body) \ {f} |-> body[x]]

GoodCart == <<GoodItem>>

\* the bodies tried: every cart paid on delivery, one good cart with every
\* payment method, and that body with each required field left out
Bodies == {Body("cod", cart) : cart \in Carts}
          \cup {Body(pm, GoodCart) : pm \in PayMethods}
          \cup {Without(Body("card", GoodCart), f) : f \in RequiredFields}

\* CheckoutRequest: every field is required
BodyValid(body) == RequiredFields \subseteq DOMAIN body

VARIABLES
    products,   \* the product collection, in insertion order
    orders,     \* the order collection, in insertion order
    nextOid,    \* the number of ObjectIds handed out
    calls,      \* per thread of the pool: the request it serves, with its locals
    begun,      \* requests received so far
    seeds,      \* seed requests received so far
    admin       \* administrative price changes made

vars == <<products, orders, nextOid, calls, begun, seeds, admin>>

(***************************************************************************)
(* The store: find by sku, find by _id, insert.                            *)
(***************************************************************************)
\* db["product"].find({"sku": {"$in": skus}})
FindBySku(skus) == SelectSeq(products, LAMBDA p : p.sku \in skus)

\* db["product"].find({"_id": {"$in": ids}})
FindByIds(ids) == SelectSeq(products, LAMBDA p : \E i \in 1..Len(ids) : ids[i] = p._id)

FreshOid == OidOf(FirstOid + nextOid)

WithId(doc, oid) == [x \in (DOMAIN doc) \cup {"_id"} |-> IF x = "_id" THEN oid ELSE doc[x]]

\* create_document("product", doc)
InsertProduct(doc) ==
    /\ products' = Append(products, WithId(doc, FreshOid))
    /\ nextOid' = nextOid + 1

\* create_document("order", doc)
InsertOrder(doc) ==
    /\ orders' = Append(orders, WithId(doc, FreshOid))
    /\ nextOid' = nextOid + 1

(***************************************************************************)
(* A request and the locals of its handler.                                *)
(***************************************************************************)
NewCall(op) ==
    [op |-> op, pc |-> "done", code |-> 0,
     nth |-> 0,                     \* seed: which seed request this is
     inserted |-> 0,                \* seed: the "inserted" of the response
     subtotal |-> FZero,            \* checkout: local subtotal
     shipping |-> FZero,            \* checkout: local shipping
     order |-> <<>>,                \* checkout: local order, when built
     order_id |-> <<>>,             \* checkout: response fields
     total |-> FZero,
     status |-> "",
     payment |-> <<>>,
     reads |-> 0,                   \* store reads made by this request
     writes |-> 0,                  \* store inserts made by this request
     missing |-> FALSE,             \* the cart names an id no product has
     malformed |-> FALSE,           \* a field is missing or a quantity < 1
     raced |-> FALSE]               \* seed: passed the check beside another seed

Idle == [NewCall("idle") EXCEPT !.pc = "idle"]

Threads == 1..MaxInFlight

\* the threads that serve no request: calls[w] is then the request thread w
\* answered last
FreeThreads(cap) == {w \in 1..cap.threads : calls[w].pc \in {"idle", "done"}}

\* a request is received: the first free thread takes it; cap bounds the
\* threads in use and the requests received
CanBegin(cap, w) ==
    /\ begun < cap.calls
    /\ w \in FreeThreads(cap)
    /\ \A v \in FreeThreads(cap) : w <= v

\* raise HTTPException(status_code = code)
Raise(call, code) == [call EXCEPT !.pc = "done", !.code = code]

\* a store operation raises; except Exception turns it into a 500
StoreError(call) == Raise(call, 500)

(***************************************************************************)
(* POST /seed                                                              *)
(***************************************************************************)
\* the existence check asking for a sku the seed does not insert
ExistingWrongSku == FindBySku({"JAG-250"})

\* existing = list(db["product"].find({"sku": {"$in": [...]}}))
Existing == FindBySku(DemoSkus)

SeedsAtInsert == {w \in Threads : calls[w].pc = "seed_ins1"}

\* the request arrives and runs up to its first store call: the existence
\* check, then "already exist" or on to the inserts
Seed(cap, w, ok) ==
    /\ CanBegin(cap, w)
    /\ begun' = begun + 1
    /\ seeds' = seeds + 1
    /\ LET call == [NewCall("seed") EXCEPT !.reads = 1, !.nth = seeds + 1]
       IN  calls' =
             IF ~ok
             THEN [calls EXCEPT ![w] = StoreError(call)]
             ELSE IF Existing # <<>>
             THEN [calls EXCEPT ![w] = [call EXCEPT !.code = 200, !.inserted = 0]]
             ELSE [v \in Threads |->
                      IF v = w THEN [call EXCEPT !.pc = "seed_ins1",
                                                 !.raced = SeedsAtInsert # {}]
                      ELSE IF v \in SeedsAtInsert
                      THEN [calls[v] EXCEPT !.raced = TRUE]
                      ELSE calls[v]]
    /\ UNCHANGED <<products, orders, nextOid, admin>>

\* the first insert under a unique index on sku: a duplicate raises
SeedInsert1Unique(w, ok) ==
    /\ calls[w].pc = "seed_ins1"
    /\ IF ok /\ FindBySku({P1.sku}) = <<>>
       THEN /\ InsertProduct(P1)
            /\ calls' = [calls EXCEPT ![w].pc = "seed_ins2",
                                      ![w].writes = @ + 1]
       ELSE /\ calls' = [calls EXCEPT ![w] = StoreError(@)]
            /\ UNCHANGED <<products, nextOid>>
    /\ UNCHANGED <<orders, begun, seeds, admin>>

\* create_document("product", p1)
SeedInsert1(w, ok) ==
    /\ calls[w].pc = "seed_ins1"
    /\ IF ok
       THEN /\ InsertProduct(P1)
            /\ calls' = [calls EXCEPT ![w].pc = "seed_ins2",
                                      ![w].writes = @ + 1]
       ELSE /\ calls' = [calls EXCEPT ![w] = StoreError(@)]
            /\ UNCHANGED <<products, nextOid>>
    /\ UNCHANGED <<orders, begun, seeds, admin>>

\* create_document("product", p2); return {"inserted": 2}
SeedInsert2(w, ok) ==
    /\ calls[w].pc = "seed_ins2"
    /\ IF ok
       THEN /\ InsertProduct(P2)
            /\ calls' = [calls EXCEPT ![w].pc = "done", ![w].code = 200,
                                      ![w].inserted = 2, ![w].writes = @ + 1]
       ELSE /\ calls' = [calls EXCEPT ![w] = StoreError(@)]
            /\ UNCHANGED <<products, nextOid>>
    /\ UNCHANGED <<orders, begun, seeds, admin>>

(***************************************************************************)
(* POST /checkout                                                          *)
(***************************************************************************)
\* product_map.get(key), for product_map = {str(p["_id"]): p for p in found}
MapGet(found, key) == SelectSeq(found, LAMBDA p : StrOid(p._id) = key)

\* the item holding the line total where the unit price belongs
MakeItemLineTotal(ci, prod) ==
    [product_id |-> ci.product_id, title |-> prod.title,
     price |-> FMulInt(prod.price, ci.quantity), quantity |-> ci.quantity]

\* OrderItem(product_id, title, price, quantity)
MakeItem(ci, prod) ==
    [product_id |-> ci.product_id, title |-> prod.title,
     price |-> prod.price, quantity |-> ci.quantity]

\* the for loop over payload.cart: 404 on the first line without a product,
\* OrderItem's ge=1 on quantity raising ValidationError, caught as 500
RECURSIVE CartLoop(_, _, _, _, _)
CartLoop(cart, found, i, items, subtotal) ==
    IF i > Len(cart) THEN [code |-> 200, items |-> items, subtotal |-> subtotal]
    ELSE LET ci   == cart[i]
             prod == MapGet(found, ci.product_id)
         IN  IF prod = <<>>
             THEN [code |-> 404, items |-> items, subtotal |-> subtotal]
             ELSE IF ci.quantity < 1
             THEN [code |-> 500, items |-> items, subtotal |-> subtotal]
             ELSE CartLoop(cart, found, i + 1,
                           Append(items, MakeItem(ci, prod[Len(prod)])),
                           FAdd(subtotal, FMulInt(prod[Len(prod)].price, ci.quantity)))

FreeShippingFrom == Dec(10000)

FlatShipping == Dec(1000)

\* shipping = 0.0 if subtotal >= 10 else 1.0
Shipping(subtotal) == IF FGe(subtotal, FreeShippingFrom) THEN FZero ELSE FlatShipping

\* the total as the sum of the rounded parts
OrderTotalOfRounded(subtotal, shipping) == FAdd(PyRound2(subtotal), PyRound2(shipping))

\* total = subtotal + shipping; Order(total = round(total, 2))
OrderTotal(subtotal, shipping) == PyRound2(FAdd(subtotal, shipping))

\* the status comparing the payment method without regard to case
StatusOfAnyCase(pm) == IF pm \in {"card", "Card"} THEN "paid" ELSE "pending"

\* status = "paid" if payload.payment_method == "card" else "pending"
StatusOf(pm) == IF pm = "card" THEN "paid" ELSE "pending"

\* Order(...)
MakeOrder(body, items, subtotal, shipping) ==
    [customer_name |-> body.name, email |-> body.email, phone |-> body.phone,
     address_line |-> body.address_line, city |-> body.city,
     pincode |-> body.pincode, payment_method |-> body.payment_method,
     items |-> items,
     subtotal |-> PyRound2(subtotal),
     shipping |-> PyRound2(shipping),
     total |-> OrderTotal(subtotal, shipping),
     status |-> StatusOf(body.payment_method)]

\* payment_info
PaymentInfo(pm, order_id) ==
    IF pm = "card"
    THEN <<[provider |-> "mock", status |-> "succeeded", transaction_id |-> order_id]>>
    ELSE <<>>

IdMissing(s) == ~(OidValid(s) /\ \E i \in 1..Len(products) : products[i]._id = ParseOid(s))

\* the handler up to the order insert: ObjectId parsing, the catalog read,
\* the loop, the order
CheckoutBody(call, body, ok) ==
    LET cart == body.cart
        c1   == [call EXCEPT
                   !.missing = \E i \in 1..Len(cart) : IdMissing(cart[i].product_id),
                   !.malformed = \E i \in 1..Len(cart) : cart[i].quantity < 1]
    IN  IF \E i \in 1..Len(cart) : ~OidValid(cart[i].product_id)
        THEN Raise(c1, 500)
        ELSE IF ~ok
        THEN StoreError([c1 EXCEPT !.reads = 1])
        ELSE
          LET ids   == [i \in 1..Len(cart) |-> ParseOid(cart[i].product_id)]
              loop  == CartLoop(cart, FindByIds(ids), 1, <<>>, FZero)
              c2    == [c1 EXCEPT !.reads = 1]
          IN  IF loop.code # 200
              THEN Raise(c2, loop.code)
              ELSE [c2 EXCEPT
                      !.pc = "co_insert",
                      !.subtotal = loop.subtotal,
                      !.shipping = Shipping(loop.subtotal),
                      !.order = <<MakeOrder(body, loop.items, loop.subtotal,
                                            Shipping(loop.subtotal))>>]

\* the request arrives: body validation, then the handler
Checkout(cap, w, body, ok) ==
    /\ CanBegin(cap, w)
    /\ begun' = begun + 1
    /\ calls' = [calls EXCEPT ![w] =
                   IF ~BodyValid(body)
                   THEN Raise([NewCall("checkout") EXCEPT !.malformed = TRUE], 422)
                   ELSE CheckoutBody(NewCall("checkout"), body, ok)]
    /\ UNCHANGED <<products, orders, nextOid, seeds, admin>>

\* return {"order_id": ..., "total": order.total, "status": order.status,
\*         "payment": payment_info}
Response(call, order_id) ==
    [call EXCEPT !.pc = "done", !.code = 200, !.writes = @ + 1,
                 !.order_id = order_id,
                 !.total = call.order[1].total,
                 !.status = call.order[1].status,
                 !.payment = PaymentInfo(call.order[1].payment_method, order_id)]

\* the order insert also marking the products bought as out of stock
CheckoutInsertStock(w, ok) ==
    /\ calls[w].pc = "co_insert"
    /\ IF ok
       THEN /\ InsertOrder(calls[w].order[1])
            /\ calls' = [calls EXCEPT ![w] = Response(@, StrOid(FreshOid))]
            /\ products' = [i \in 1..Len(products) |->
                  IF \E k \in 1..Len(calls[w].order[1].items) :
                        calls[w].order[1].items[k].product_id = StrOid(products[i]._id)
                  THEN [products[i] EXCEPT !.in_stock = FALSE]
                  ELSE products[i]]
       ELSE /\ calls' = [calls EXCEPT ![w] = StoreError(@)]
            /\ UNCHANGED <<orders, nextOid, products>>
    /\ UNCHANGED <<begun, seeds, admin>>

\* order_id = create_document("order", order); the response
CheckoutInsert(w, ok) ==
    /\ calls[w].pc = "co_insert"
    /\ IF ok
       THEN /\ InsertOrder(calls[w].order[1])
            /\ calls' = [calls EXCEPT ![w] = Response(@, StrOid(FreshOid))]
       ELSE /\ calls' = [calls EXCEPT ![w] = StoreError(@)]
            /\ UNCHANGED <<orders, nextOid>>
    /\ UNCHANGED <<products, begun, seeds, admin>>

(***************************************************************************)
(* The catalog changing under the system: an administrator reprices a      *)
(* product.                                                                *)
(***************************************************************************)
AdminPrices == {Dec(3332)}

AdminSetPrice(i, price) ==
    /\ admin < MaxAdmin
    /\ i \in 1..Len(products)
    /\ products[i].price # price
    /\ products' = [products EXCEPT ![i].price = price]
    /\ admin' = admin + 1
    /\ UNCHANGED <<orders, nextOid, calls, begun, seeds>>

(***************************************************************************)
(* Specifications: requests served concurrently by the thread pool, and    *)
(* requests served one after another.                                      *)
(***************************************************************************)
Init ==
    /\ products = <<>>
    /\ orders = <<>>
    /\ nextOid = 0
    /\ calls = [w \in Threads |-> Idle]
    /\ begun = 0
    /\ seeds = 0
    /\ admin = 0

NextOf(cap, oks) ==
    \/ \E w \in Threads, ok \in oks : Seed(cap, w, ok)
    \/ \E w \in Threads, ok \in oks : SeedInsert1(w, ok)
    \/ \E w \in Threads, ok \in oks : SeedInsert2(w, ok)
    \/ \E w \in Threads, body \in Bodies, ok \in oks : Checkout(cap, w, body, ok)
    \/ \E w \in Threads, ok \in oks : CheckoutInsert(w, ok)
    \/ \E i \in 1..Len(products), price \in AdminPrices : AdminSetPrice(i, price)

\* the thread pool serves requests at once; the store answers
Next == NextOf([threads |-> MaxInFlight, calls |-> MaxCalls], {TRUE})

Spec == Init /\ [][Next]_vars

\* one request after another; the store answers
SeqNext == NextOf([threads |-> 1, calls |-> MaxSeqCalls], {TRUE})

SeqSpec == Init /\ [][SeqNext]_vars

\* one request after another; any store operation may raise
FaultNext == NextOf([threads |-> 1, calls |-> MaxSeqCalls], BOOLEAN)

FaultSpec == Init /\ [][FaultNext]_vars
(***************************************************************************)
(* Properties.                                                             *)
(***************************************************************************)
Done(w) == calls[w].pc = "done"

\* thread w has answered a checkout with 200
Succeeded(w) == calls[w].op = "checkout" /\ Done(w) /\ calls[w].code = 200

\* the order a successful checkout persisted
PersistedOrder(w) ==
    orders[CHOOSE i \in 1..Len(orders) : StrOid(orders[i]._id) = calls[w].order_id]

\* the sum over the items of price x quantity, as the loop accumulates it
RECURSIVE LineSum(_, _)
LineSum(items, n) ==
    IF n = 0 THEN FZero
    ELSE FAdd(LineSum(items, n - 1), FMulInt(items[n].price, items[n].quantity))

CountSku(sku) == Len(FindBySku({sku}))

SeedInFlight == \E w \in Threads : calls[w].op = "seed" /\ ~Done(w)

\* C1: every checkout whose cart names a product_id that is not in the
\* catalog answers 404 and inserts no order.
C1_MissingIdIs404 ==
    \A w \in Threads :
        (calls[w].op = "checkout" /\ Done(w) /\ calls[w].missing)
            => (calls[w].code = 404 /\ calls[w].writes = 0)

C3_StatusAndPayment ==
    \A w \in Threads :
        Succeeded(w) =>
            LET pm == PersistedOrder(w).payment_method
            IN  /\ calls[w].status = (IF pm = "card" THEN "paid" ELSE "pending")
                /\ PersistedOrder(w).status = calls[w].status
                /\ (calls[w].payment # <<>>) <=> (pm = "card")
                /\ calls[w].payment # <<>> =>
                       calls[w].payment[1].transaction_id = calls[w].order_id

\* successful checkouts paid by card and paid by "Card"
C3_Witness ==
    \E w \in Threads :
        /\ Succeeded(w)
        /\ PersistedOrder(w).payment_method = "Card"
        /\ calls[w].status = "pending"
        /\ calls[w].payment = <<>>

\* C4: served one after another from an empty catalog, the first seed call
\* reports inserted: 2 and every later one inserted: 0, and once a seed call
\* has returned the catalog holds exactly one JAG-500 and one JAG-1000.
C4_SeedIdempotent ==
    /\ \A w \in Threads :
           (calls[w].op = "seed" /\ Done(w)) =>
               /\ calls[w].code = 200
               /\ calls[w].inserted = (IF calls[w].nth = 1 THEN 2 ELSE 0)
    /\ (seeds >= 1 /\ ~SeedInFlight) =>
           /\ Len(products) = 2
           /\ CountSku("JAG-500") = 1
           /\ CountSku("JAG-1000") = 1

\* a second seed call has answered inserted: 0
C4_Witness ==
    \E w \in Threads :
        /\ calls[w].op = "seed" /\ Done(w)
        /\ calls[w].nth = 2
        /\ calls[w].inserted = 0
        /\ Len(products) = 2

\* the items of an order match the catalog the checkout read
ItemsSnapshot(items) ==
    \A k \in 1..Len(items) :
        \E i \in 1..Len(products) :
            /\ StrOid(products[i]._id) = items[k].product_id
            /\ items[k].title = products[i].title
            /\ items[k].price = products[i].price

C5_Step ==
    /\ Len(orders') >= Len(orders)
    /\ \A i \in 1..Len(orders) : orders'[i] = orders[i]
    /\ \A w \in Threads :
           (calls[w].pc # "co_insert" /\ calls'[w].pc = "co_insert")
               => ItemsSnapshot(calls'[w].order[1].items)
    /\ \A w \in Threads :
           (calls[w].pc = "co_insert" /\ calls'[w].pc = "done" /\ calls'[w].code = 200)
               => /\ Len(orders') = Len(orders) + 1
                  /\ orders'[Len(orders')].items = calls[w].order[1].items

\* C5: each item of a persisted order holds the title and unit price its
\* product had when the checkout read the catalog, and no later step of any
\* seed, checkout or price change alters or removes an order.
C5_SnapshotFrozen == [][C5_Step]_vars

\* an order whose item price is no longer the price of its product
C5_Witness ==
    \E o \in 1..Len(orders) :
        \E k \in 1..Len(orders[o].items), i \in 1..Len(products) :
            /\ StrOid(products[i]._id) = orders[o].items[k].product_id
            /\ products[i].price # orders[o].items[k].price
            /\ orders[o].items[k].price = P1.price

\* C6, for requests whose product ids are all in the catalog: a checkout
\* with a missing field or a quantity below 1 gets a client error before
\* any store access.
C6_MalformedRejectedEarly ==
    \A w \in Threads :
        (calls[w].op = "checkout" /\ Done(w) /\ calls[w].malformed /\ ~calls[w].missing)
            => /\ calls[w].code \in 400..499
               /\ calls[w].reads = 0
               /\ calls[w].writes = 0

\* C7: every order in the order store has at least one item.
C7_OrdersHaveItems == \A o \in 1..Len(orders) : orders[o].items # <<>>

CheckoutStep(w) ==
    /\ calls'[w] # calls[w]
    /\ calls[w].op = "checkout" \/ calls'[w].op = "checkout"

\* C8: every step of a checkout, successful or failed, leaves the product
\* collection as it was and adds at most one order; a checkout makes at
\* most one insert.
C8_CatalogUnchanged ==
    [][\A w \in Threads :
          CheckoutStep(w) =>
              /\ products' = products
              /\ Len(orders') <= Len(orders) + 1
              /\ calls'[w].writes <= 1]_vars

\* a checkout has persisted its order and the seeded catalog is as seeded
C8_Witness ==
    \E w \in Threads :
        /\ Succeeded(w)
        /\ calls[w].writes = 1
        /\ Len(orders) = 1
        /\ Len(products) = 2
        /\ \A i \in 1..Len(products) : products[i].in_stock

\* C9: a seed call that passed the existence check while another seed call
\* had passed it and not yet inserted reports inserted: 2, and once no seed
\* call is in flight the catalog holds each demo sku at least twice.
C9_SeedRace ==
    \A w \in Threads :
        (calls[w].op = "seed" /\ Done(w) /\ calls[w].raced) =>
            /\ calls[w].code = 200
            /\ calls[w].inserted = 2
            /\ ~SeedInFlight =>
                   /\ CountSku("JAG-500") >= 2
                   /\ CountSku("JAG-1000") >= 2

\* two seed calls have both reported inserted: 2 and the catalog holds four
\* demo products
C9_Witness ==
    /\ \E w, v \in Threads :
           /\ w # v
           /\ calls[w].op = "seed" /\ Done(w) /\ calls[w].raced /\ calls[w].inserted = 2
           /\ calls[v].op = "seed" /\ Done(v) /\ calls[v].raced /\ calls[v].inserted = 2
    /\ Len(products) = 4
    /\ CountSku("JAG-500") = 2
    /\ CountSku("JAG-1000") = 2

\* C10: with requests served one after another and store operations free to
\* raise, whenever no request is in flight the catalog holds neither or both
\* of JAG-500 and JAG-1000.
C10_SeedAllOrNothing ==
    (\A w \in Threads : calls[w].pc \in {"idle", "done"})
        => (CountSku("JAG-500") = 0 <=> CountSku("JAG-1000") = 0)
=============================================================================
